---- MODULE Spec2Model ----
(***************************************************************************)
(* The consume-process-acknowledge loop of sz_sb_consumer.py.              *)
(*                                                                         *)
(* One coordinator thread (the `while True` loop, lines 154-273, and its   *)
(* `except` handler, lines 275-290) and the worker threads of the          *)
(* ThreadPoolExecutor running process_msg (lines 28-43).  A handle is the  *)
(* delivery number of a message: the h-th message the receiver returns.    *)
(* Time is an integer clock; time.time() reads it.                         *)
(***************************************************************************)
EXTENDS Integers, Sequences, FiniteSets, TLC

\* ---------------------------------------------------------------- bounds
\* messages the broker can deliver over a run
NumMsgs == 2
\* the clock stops at MaxTime
MaxTime == 15
\* The code completes the delete batch when it holds 10 handles (line 185).
\* The model completes it at DeleteBatchMax, so that the mid-drain flush is
\* reached with the few handles of a bounded run.
DeleteBatchMax == 2
\* The code prints a rate line every INTERVAL = 10000 messages (line 16).  The
\* model prints it every RateInterval messages, so that a rate line is reached
\* with the few messages of a bounded run.
RateInterval == 2

\* ------------------------------------------------------ program constants
\* LONG_RECORD = int(os.getenv("LONG_RECORD", default=300)): an input of the
\* run; 2 seconds here, the value of the long-runner scenario.
LONG_RECORD == 2
\* concurrent.futures.wait(..., timeout=10, ...)
WAIT_TIMEOUT == 10
\* receiver.receive_messages(..., max_wait_time=5)
RECEIVE_WAIT == 5
\* time.sleep(1)
SLEEP_TIME == 1

\* the configurations of a run, <<SENZING_THREADS_PER_PROCESS, SENZING_PREFETCH>>:
\* serial, one worker with a queued item, two workers with a queued item, one
\* worker with two queued items
Configs == {<<1, 0>>, <<1, 1>>, <<2, 1>>, <<1, 2>>}

Handles == 1..NumMsgs

\* the settings the startup requires: SENZING_ENGINE_CONFIGURATION_JSON,
\* the connection string (-u or SENZING_AZURE_QUEUE_CONNECTION_STRING) and
\* SENZING_AZURE_QUEUE_NAME, in the order the startup tests them
RequiredSettings == <<"engine_config", "connection_str", "queue_name">>

AllSettings == {RequiredSettings[i] : i \in 1..Len(RequiredSettings)}

\* outcomes of process_msg: returned, SzBadInputError,
\* SzRetryTimeoutExceededError, any other exception
Outcomes == {"ok", "info", "bad", "retry", "other"}

VARIABLES
    max_workers,    \* executor._max_workers
    prefetch,       \* prefetch
    clock,          \* what time.time() returns
    nowTime,        \* nowTime
    logCheckTime,   \* logCheckTime
    nextHandle,     \* number of messages delivered so far
    valid,          \* delivered handles whose body is JSON with both id fields
    task,           \* state of the future of each handle
    futures,        \* the registry: handle -> [start, ext]
    done,           \* the `done` set still to be iterated
    delete_batch,   \* delete_batch (delete_cnt is its length)
    messages,       \* messages
    scanTodo,       \* entries the stuck scan has still to visit
    numStuck,       \* numStuck
    ops,            \* per handle, the broker calls issued on it, in order
    stillLines,     \* the "Still processing" lines printed, by handle
    stale,          \* handles whose receiver has been closed
    recreated,      \* "Recreating receiver." has been printed
    rateLines,      \* number of "Processed ... adds" rate lines printed
    prevTime,       \* prevTime
    stuckLines,     \* "All ... threads are stuck" lines of the latest scan
    max_msgs,       \* max_msgs of the latest receive_messages call, 0 before it
    settings,       \* the environment of the run: the required settings
                    \* that are present, SENZING_THREADS_PER_PROCESS and
                    \* SENZING_PREFETCH as int() reads them (0 and -1 unset)
    cpu_count,      \* cpu_count: -1 until line 121 reads it, 0 for None
    diag,           \* the missing setting the startup diagnostic names
    info,           \* args.info: -i, with-info results are asked for
    printed,        \* handles whose result line 172 has printed to stdout
    err,            \* the unhandled error caught at line 275, or "none"
    exitStatus,     \* <<>> while the process runs, <<status>> once it exited
    pc              \* the coordinator's position

vars == <<max_workers, prefetch, clock, nowTime, logCheckTime, nextHandle,
          valid, task, futures, done, delete_batch, messages, scanTodo,
          numStuck, ops, stillLines, stale, recreated, rateLines,
          prevTime, stuckLines, max_msgs, settings, cpu_count, diag, info,
          printed, err, exitStatus, pc>>

\* ---------------------------------------------------------------- helpers
Min(a, b) == IF a < b THEN a ELSE b

MinOf(S) == CHOOSE x \in S : \A y \in S : x <= y

Registry == DOMAIN futures

\* executor._max_workers + prefetch
Budget == max_workers + prefetch

\* fut.done()
FutDone(h) == task[h] \in Outcomes

Running == {h \in Handles : task[h] = "running"}

Queued == {h \in Handles : task[h] = "queued"}

\* the coordinator is in the `except Exception` handler or past it
ShutdownPcs == {"shutdown", "poolwait", "exited"}

\* max_msgs that forgets the registry
MaxMsgsWholeBudget(len) == Budget

\* max_msgs off by one
MaxMsgsOffByOne(len) == Budget - len + 1

\* max_msgs = executor._max_workers + prefetch - len(futures)
MaxMsgs(len) == Budget - len

\* the done set of wait(), with every registered future taken as done
DoneFuturesAll == Registry

\* fut.result() raises: process_msg ended with an exception
TaskRaised(o) == o \in {"bad", "retry", "other"}

\* done, _ = concurrent.futures.wait(futures, ..., FIRST_COMPLETED)
DoneFutures == {h \in Registry : FutDone(h)}

\* a pop that leaves the entry in the registry
PopKeeps(f, h) == f

\* msg = futures.pop(fut) (line 168)
Pop(f, h) == [x \in DOMAIN f \ {h} |-> f[x]]

\* an entry registered as already extended
NewEntryExtended(now) == [start |-> now, ext |-> 1]

\* futures[executor.submit(...)] = (this_msg, time.time(), 0) (lines 263-268)
NewEntry(now) == [start |-> now, ext |-> 0]

\* a worker that completes its own message
ProcessMsgAcks(o, h) == [o EXCEPT ![h] = Append(@, "ack")]

\* the broker calls on a handle after process_msg has run on its message
\* (lines 28-43): process_msg issues none
ProcessMsg(o, h) == o

\* what a call of process_msg can end with (lines 28-43): "info" is a
\* non-empty string, returned only by the call with SZ_WITH_INFO; "ok" is None
\* or an empty string
Results(i) == IF i THEN Outcomes ELSE Outcomes \ {"info"}

\* a result that is never printed
ResultPrintedNever(o) == FALSE

\* if result: print(result) (lines 171-172)
ResultPrinted(o) == o = "info"

\* an except clause that catches every task error
IsDeadLetterErrorAny(o) == o \in {"retry", "bad", "other"}

\* an except clause that forgets SzBadInputError
IsDeadLetterErrorRetryOnly(o) == o = "retry"

\* except (SzRetryTimeoutExceededError, SzBadInputError)
IsDeadLetterError(o) == o \in {"retry", "bad"}

\* a handler that logs the error and goes back to the loop
OnErrorResume == "top"

\* except Exception as err: (line 275) -- the handler the loop's errors reach
OnError == "shutdown"

\* exit(code): the status the host sees
ExitStatus(code) == code % 256

\* a batch that is never completed inside the drain loop
BatchFullNever(len) == FALSE

\* if delete_cnt == 10: (line 185)
BatchFull(len) == len = DeleteBatchMax

\* a housekeeping guard that holds on every iteration
HousekeepingDueAlways(now, last) == TRUE

\* if nowTime > logCheckTime + (LONG_RECORD / 2): (line 207)
HousekeepingDue(now, last) == 2 * now > 2 * last + LONG_RECORD

\* if not fut.done(): duration = nowTime - msg[TUPLE_STARTTIME];
\* if duration > LONG_RECORD * (msg[TUPLE_EXTENDED] + 1): (lines 218-222)
\* an extension that restarts the entry's clock
ExtendedRestarts(e) == [start |-> nowTime, ext |-> e.ext + 1]

\* futures[fut] = (msg, start_time, times_extended) with
\* times_extended = msg[TUPLE_EXTENDED] + 1 (lines 227-235)
Extended(e) == [start |-> e.start, ext |-> e.ext + 1]

\* a test that takes finished tasks too
IsStuckAny(h) ==
    nowTime - futures[h].start > LONG_RECORD * (futures[h].ext + 1)

IsStuck(h) ==
    /\ ~FutDone(h)
    /\ nowTime - futures[h].start > LONG_RECORD * (futures[h].ext + 1)

\* if numStuck >= executor._max_workers: print(...) (lines 239-242), at the end
\* of each iteration of the scan: the number of lines it prints
AllStuckLine(n) == IF n >= max_workers THEN 1 ELSE 0

\* a rate test that fires one message late
RateDueLate(m) == m % RateInterval = 1

\* if messages % INTERVAL == 0: (line 193)
RateDue(m) == m % RateInterval = 0

\* a recycle on every empty batch
ShouldRecycleAlways(len) == TRUE

\* if len(futures) == 0: (line 254) -- close the receiver and open a new one
ShouldRecycle(len) == len = 0

\* an empty batch that ends the outer loop too
AfterEmptyBatchStop == "idle"

\* break (line 262) leaves the fetch loop only: `while True` (line 154) goes on
AfterEmptyBatch == "top"

\* a pool that starts a thread for every work item
PoolHasIdleThreadAlways == TRUE

\* ThreadPoolExecutor(max_workers): a work item starts only on one of the
\* max_workers threads
PoolHasIdleThread == Cardinality(Running) < max_workers

\* a report that does not test fut.done()
StillRunningAny(h) == TRUE

\* if not fut.done(): (line 282)
StillRunning(h) == ~FutDone(h)

\* the lines printed by `for fut, msg in futures.items():` (lines 281-288) over
\* the entries todo, in registry order; orjson.loads raises on a body that is
\* not JSON, which ends the loop
RECURSIVE ReportLines(_)
ReportLines(todo) ==
    IF todo = {} THEN <<>>
    ELSE LET h == MinOf(todo)
         IN  IF ~StillRunning(h) THEN ReportLines(todo \ {h})
             ELSE IF h \notin valid THEN <<>>
             ELSE <<h>> \o ReportLines(todo \ {h})

\* receiver.complete_message on the first k handles of batch, in order
RECURSIVE CompleteUpTo(_, _, _)
CompleteUpTo(o, batch, k) ==
    IF k = 0 THEN o
    ELSE LET o1 == CompleteUpTo(o, batch, k - 1)
         IN  [o1 EXCEPT ![batch[k]] = Append(@, "ack")]

\* for msg_to_complete in batch: receiver.complete_message(msg_to_complete)
\* where the calls on the first k handles return and, if k < Len(batch), the
\* call on the next one raises
CompleteBatch(o, batch, k) ==
    LET o1 == CompleteUpTo(o, batch, k)
    IN  IF k < Len(batch)
        THEN [o1 EXCEPT ![batch[k + 1]] = Append(@, "ack_err")]
        ELSE o1

\* ------------------------------------------------------------------- Init
Init ==
    /\ \E c \in Configs : max_workers = c[1] /\ prefetch = c[2]
    /\ clock = 0
    /\ nowTime = 0
    /\ logCheckTime = 0
    /\ nextHandle = 0
    /\ valid = {}
    /\ task = [h \in Handles |-> "none"]
    /\ futures = <<>>
    /\ done = {}
    /\ delete_batch = <<>>
    /\ messages = 0
    /\ scanTodo = {}
    /\ numStuck = 0
    /\ ops = [h \in Handles |-> <<>>]
    /\ stillLines = <<>>
    /\ stale = {}
    /\ recreated = FALSE
    /\ rateLines = 0
    /\ prevTime = 0
    /\ stuckLines = 0
    /\ max_msgs = 0
    /\ settings = [required |-> AllSettings, threads |-> max_workers,
                   prefetch |-> prefetch]
    /\ cpu_count = -1
    /\ diag = "none"
    /\ info = FALSE
    /\ printed = {}
    /\ err = "none"
    /\ exitStatus = <<>>
    /\ pc = "top"

\* ------------------------------------------------------------ environment
\* time passes while the coordinator is blocked in wait() with no future done
\* (the other places where it blocks, Sleep and FetchEmpty, move the clock
\* themselves; its other steps take no time)
Tick ==
    /\ pc = "wait"
    /\ DoneFutures = {}
    /\ clock < nowTime + WAIT_TIMEOUT
    /\ clock < MaxTime
    /\ clock' = clock + 1
    /\ UNCHANGED <<max_workers, prefetch, info, printed, stuckLines, max_msgs,
                   settings, cpu_count, diag, stale, recreated, rateLines,
                   prevTime, nowTime, logCheckTime, nextHandle, valid, task,
                   futures, done, delete_batch, messages, scanTodo, numStuck,
                   ops, stillLines, err, exitStatus, pc>>

\* ---------------------------------------------------------------- workers
\* an idle pool thread takes the oldest queued work item
Start ==
    /\ Queued # {}
    /\ PoolHasIdleThread
    /\ task' = [task EXCEPT ![MinOf(Queued)] = "running"]
    /\ UNCHANGED <<max_workers, prefetch, info, printed, stuckLines, max_msgs,
                   settings, cpu_count, diag, stale, recreated, rateLines,
                   prevTime, clock, nowTime, logCheckTime, nextHandle, valid,
                   futures, done, delete_batch, messages, scanTodo, numStuck,
                   ops, stillLines, err, exitStatus, pc>>

\* process_msg returns or raises
Complete ==
    \E h \in Running :
        \E o \in (IF h \in valid THEN Results(info) ELSE {"other"}) :
            /\ task' = [task EXCEPT ![h] = o]
            /\ ops' = ProcessMsg(ops, h)
            /\ UNCHANGED <<max_workers, prefetch, info, printed, stuckLines,
                           max_msgs, settings, cpu_count, diag, stale,
                           recreated, rateLines, prevTime, clock, nowTime,
                           logCheckTime, nextHandle, valid, futures, done,
                           delete_batch, messages, scanTodo, numStuck,
                           stillLines, err, exitStatus, pc>>

\* ------------------------------------------------------------ coordinator
\* nowTime = time.time(); if futures:
LoopTop ==
    /\ pc = "top"
    /\ nowTime' = clock
    /\ pc' = IF Registry # {} THEN "wait" ELSE "admit"
    /\ UNCHANGED <<max_workers, prefetch, info, printed, stuckLines, max_msgs,
                   settings, cpu_count, diag, stale, recreated, rateLines,
                   prevTime, clock, logCheckTime, nextHandle, valid, task,
                   futures, done, delete_batch, messages, scanTodo, numStuck,
                   ops, stillLines, err, exitStatus>>

\* wait() returns: a future is done, or the timeout has passed
WaitReturn ==
    /\ pc = "wait"
    /\ \/ DoneFutures # {}
       \/ clock >= nowTime + WAIT_TIMEOUT
    /\ done' = DoneFutures
    /\ delete_batch' = <<>>
    /\ pc' = "drain"
    /\ UNCHANGED <<max_workers, prefetch, info, printed, stuckLines, max_msgs,
                   settings, cpu_count, diag, stale, recreated, rateLines,
                   prevTime, clock, nowTime, logCheckTime, nextHandle, valid,
                   task, futures, messages, scanTodo, numStuck, ops,
                   stillLines, err, exitStatus>>

\* one iteration of `for fut in done:` (lines 167-201)
DrainOne ==
    /\ pc = "drain"
    /\ \E h \in done :
        LET popped == Pop(futures, h)
            dl     == TaskRaised(task[h]) /\ IsDeadLetterError(task[h])
            ops1   == IF dl THEN [ops EXCEPT ![h] = Append(@, "dl")] ELSE ops
            batch1 == Append(delete_batch, h)
            full   == BatchFull(Len(batch1))
        IN
        /\ futures' = popped
        /\ \/ \* fut.result() raises an error no except clause names
              /\ TaskRaised(task[h])
              /\ ~dl
              /\ err' = "task"
              /\ pc' = OnError
              /\ UNCHANGED <<ops, delete_batch, messages, done, rateLines,
                             prevTime, printed>>
           \/ \* receiver.dead_letter_message raises
              /\ dl
              /\ ops' = [ops EXCEPT ![h] = Append(@, "dl_err")]
              /\ err' = "dead_letter"
              /\ pc' = OnError
              /\ UNCHANGED <<delete_batch, messages, done, rateLines,
                             prevTime, printed>>
           \/ \* the iteration runs to its end
              /\ ~TaskRaised(task[h]) \/ dl
              /\ printed' = IF ResultPrinted(task[h])
                            THEN printed \cup {h}
                            ELSE printed
              /\ \E k \in 0..(IF full THEN Len(batch1) ELSE 0) :
                    IF full /\ k < Len(batch1)
                    THEN \* receiver.complete_message raises
                         /\ ops' = CompleteBatch(ops1, batch1, k)
                         /\ delete_batch' = batch1
                         /\ err' = "complete"
                         /\ pc' = OnError
                         /\ UNCHANGED <<messages, done, rateLines,
                                        prevTime>>
                    ELSE /\ ops' = IF full
                                   THEN CompleteBatch(ops1, batch1, k)
                                   ELSE ops1
                         /\ delete_batch' = IF full THEN <<>> ELSE batch1
                         /\ messages' = messages + 1
                         /\ rateLines' = IF RateDue(messages + 1)
                                         THEN rateLines + 1
                                         ELSE rateLines
                         /\ prevTime' = IF RateDue(messages + 1)
                                        THEN nowTime
                                        ELSE prevTime
                         /\ done' = done \ {h}
                         /\ UNCHANGED <<err, pc>>
    /\ UNCHANGED <<max_workers, prefetch, info, stuckLines, max_msgs,
                   settings, cpu_count, diag, stale, recreated, clock,
                   nowTime, logCheckTime, nextHandle, valid, task, scanTodo,
                   numStuck, stillLines, exitStatus>>

\* if delete_batch: complete each (lines 203-205); the list keeps its handles
\* until the next drain step resets it (line 164)
Flush ==
    /\ pc = "drain"
    /\ done = {}
    /\ \E k \in 0..Len(delete_batch) :
        /\ ops' = CompleteBatch(ops, delete_batch, k)
        /\ IF k < Len(delete_batch)
           THEN /\ err' = "complete"
                /\ pc' = OnError
                /\ UNCHANGED delete_batch
           ELSE /\ pc' = "housekeep"
                /\ UNCHANGED <<delete_batch, err>>
    /\ UNCHANGED <<max_workers, prefetch, info, printed, stuckLines, max_msgs,
                   settings, cpu_count, diag, stale, recreated, rateLines,
                   prevTime, clock, nowTime, logCheckTime, nextHandle, valid,
                   task, futures, done, messages, scanTodo, numStuck,
                   stillLines, exitStatus>>

\* if nowTime > logCheckTime + (LONG_RECORD / 2): (lines 207-216)
Housekeep ==
    /\ pc = "housekeep"
    /\ IF HousekeepingDue(nowTime, logCheckTime)
       THEN /\ logCheckTime' = nowTime
            /\ \/ \* g2.get_stats() raises
                  /\ err' = "stats"
                  /\ pc' = OnError
                  /\ UNCHANGED <<numStuck, scanTodo, stuckLines>>
               \/ /\ numStuck' = 0
                  /\ stuckLines' = 0
                  /\ scanTodo' = Registry
                  /\ pc' = "scan"
                  /\ UNCHANGED err
       ELSE /\ pc' = "admit"
            /\ UNCHANGED <<logCheckTime, numStuck, scanTodo, stuckLines,
                           err>>
    /\ UNCHANGED <<max_workers, prefetch, info, printed, max_msgs, settings,
                   cpu_count, diag, stale, recreated, rateLines, prevTime,
                   clock, nowTime, nextHandle, valid, task, futures, done,
                   delete_batch, messages, ops, stillLines, exitStatus>>

\* one iteration of `for fut, msg in futures.items():` (lines 217-242), up to
\* numStuck += 1 for a stuck entry and whole for any other
ScanOne ==
    /\ pc = "scan"
    /\ scanTodo # {}
    /\ LET h == MinOf(scanTodo) IN
       IF IsStuck(h)
       THEN \* numStuck += 1; the entry stays the scan's current one
            /\ numStuck' = numStuck + 1
            /\ pc' = "renew"
            /\ UNCHANGED <<scanTodo, stuckLines>>
       ELSE /\ scanTodo' = scanTodo \ {h}
            /\ stuckLines' = stuckLines + AllStuckLine(numStuck)
            /\ UNCHANGED <<numStuck, pc>>
    /\ UNCHANGED <<max_workers, prefetch, info, printed, max_msgs, settings,
                   cpu_count, diag, stale, recreated, rateLines, prevTime,
                   clock, nowTime, logCheckTime, nextHandle, valid, task,
                   futures, done, delete_batch, messages, ops, stillLines,
                   err, exitStatus>>

\* the rest of the iteration for a stuck entry (lines 224-242): the body is
\* parsed, the lock renewed, the entry replaced and the line printed; the
\* entry's task may have ended since line 218 tested it
ScanRenew ==
    /\ pc = "renew"
    /\ LET h == MinOf(scanTodo) IN
       /\ scanTodo' = scanTodo \ {h}
       /\ IF h \notin valid
          THEN \/ \* the body is not JSON: orjson.loads raises
                  /\ err' = "json"
                  /\ pc' = OnError
                  /\ UNCHANGED <<ops, futures, stuckLines>>
               \/ \* the body is JSON without the id fields: the lock is
                  \* renewed, then the print raises KeyError
                  /\ ops' = [ops EXCEPT ![h] = Append(@, "renew")]
                  /\ futures' = [futures EXCEPT ![h] = Extended(@)]
                  /\ err' = "json"
                  /\ pc' = OnError
                  /\ UNCHANGED stuckLines
          ELSE \/ \* receiver.renew_message_lock raises
                  /\ ops' = [ops EXCEPT ![h] = Append(@, "renew_err")]
                  /\ err' = "renew"
                  /\ pc' = OnError
                  /\ UNCHANGED <<futures, stuckLines>>
               \/ /\ ops' = [ops EXCEPT ![h] = Append(@, "renew")]
                  /\ futures' = [futures EXCEPT ![h] = Extended(@)]
                  /\ stuckLines' = stuckLines + AllStuckLine(numStuck)
                  /\ pc' = "scan"
                  /\ UNCHANGED err
    /\ UNCHANGED <<max_workers, prefetch, info, printed, max_msgs, settings,
                   cpu_count, diag, stale, recreated, rateLines, prevTime,
                   clock, nowTime, logCheckTime, nextHandle, valid, task,
                   done, delete_batch, messages, numStuck, stillLines,
                   exitStatus>>

\* the scan has visited every entry
ScanEnd ==
    /\ pc = "scan"
    /\ scanTodo = {}
    /\ pc' = "admit"
    /\ UNCHANGED <<max_workers, prefetch, info, printed, stuckLines, max_msgs,
                   settings, cpu_count, diag, stale, recreated, rateLines,
                   prevTime, clock, nowTime, logCheckTime, nextHandle, valid,
                   task, futures, done, delete_batch, messages, scanTodo,
                   numStuck, ops, stillLines, err, exitStatus>>

\* if len(futures) >= executor._max_workers + prefetch: (line 243)
Admit ==
    /\ pc = "admit"
    /\ pc' = IF Cardinality(Registry) >= Budget THEN "sleep" ELSE "fetch"
    /\ UNCHANGED <<max_workers, prefetch, info, printed, stuckLines, max_msgs,
                   settings, cpu_count, diag, stale, recreated, rateLines,
                   prevTime, clock, nowTime, logCheckTime, nextHandle, valid,
                   task, futures, done, delete_batch, messages, scanTodo,
                   numStuck, ops, stillLines, err, exitStatus>>

\* time.sleep(1); continue
Sleep ==
    /\ pc = "sleep"
    /\ clock + SLEEP_TIME <= MaxTime
    /\ clock' = clock + SLEEP_TIME
    /\ pc' = "top"
    /\ UNCHANGED <<max_workers, prefetch, info, printed, stuckLines, max_msgs,
                   settings, cpu_count, diag, stale, recreated, rateLines,
                   prevTime, nowTime, logCheckTime, nextHandle, valid, task,
                   futures, done, delete_batch, messages, scanTodo, numStuck,
                   ops, stillLines, err, exitStatus>>

\* receive_messages returns a batch, which is dispatched (lines 249-268)
FetchBatch ==
    /\ pc = "fetch"
    /\ Cardinality(Registry) < Budget
    /\ \E k \in 1..Min(MaxMsgs(Cardinality(Registry)), NumMsgs - nextHandle) :
        LET new == (nextHandle + 1)..(nextHandle + k) IN
        \E v \in SUBSET new :
            /\ nextHandle' = nextHandle + k
            /\ max_msgs' = MaxMsgs(Cardinality(Registry))
            /\ valid' = valid \cup v
            /\ task' = [h \in Handles |->
                          IF h \in new THEN "queued" ELSE task[h]]
            /\ futures' = [h \in Registry \cup new |->
                             IF h \in new
                             THEN NewEntry(clock)
                             ELSE futures[h]]
    /\ UNCHANGED <<max_workers, prefetch, info, printed, stuckLines, settings,
                   cpu_count, diag, stale, recreated, rateLines, prevTime,
                   clock, nowTime, logCheckTime, done, delete_batch, messages,
                   scanTodo, numStuck, ops, stillLines, err, exitStatus, pc>>

\* receive_messages returns nothing after max_wait_time: recycle the receiver if nothing is in
\* flight, and break (lines 253-262)
FetchEmpty ==
    /\ pc = "fetch"
    /\ Cardinality(Registry) < Budget
    /\ clock + RECEIVE_WAIT <= MaxTime
    /\ clock' = clock + RECEIVE_WAIT
    /\ max_msgs' = MaxMsgs(Cardinality(Registry))
    /\ stale' = IF ShouldRecycle(Cardinality(Registry))
                THEN 1..nextHandle
                ELSE stale
    /\ recreated' = (recreated \/ ShouldRecycle(Cardinality(Registry)))
    /\ pc' = AfterEmptyBatch
    /\ UNCHANGED <<max_workers, prefetch, info, printed, stuckLines, settings,
                   cpu_count, diag, rateLines, prevTime, nowTime,
                   logCheckTime, nextHandle, valid, task, futures, done,
                   delete_batch, messages, scanTodo, numStuck, ops,
                   stillLines, err, exitStatus>>

\* receive_messages raises (lines 269-271)
FetchRaises ==
    /\ pc = "fetch"
    /\ Cardinality(Registry) < Budget
    /\ max_msgs' = MaxMsgs(Cardinality(Registry))
    /\ err' = "receive"
    /\ pc' = OnError
    /\ UNCHANGED <<max_workers, prefetch, info, printed, stuckLines, settings,
                   cpu_count, diag, stale, recreated, rateLines, prevTime,
                   clock, nowTime, logCheckTime, nextHandle, valid, task,
                   futures, done, delete_batch, messages, scanTodo, numStuck,
                   ops, stillLines, exitStatus>>

\* the condition of `while len(futures) < ...` is false (line 247)
FetchFull ==
    /\ pc = "fetch"
    /\ Cardinality(Registry) >= Budget
    /\ pc' = "top"
    /\ UNCHANGED <<max_workers, prefetch, info, printed, stuckLines, max_msgs,
                   settings, cpu_count, diag, stale, recreated, rateLines,
                   prevTime, clock, nowTime, logCheckTime, nextHandle, valid,
                   task, futures, done, delete_batch, messages, scanTodo,
                   numStuck, ops, stillLines, err, exitStatus>>

\* the "Still processing" lines of the handler (lines 281-288)
Report ==
    /\ pc = "shutdown"
    /\ stillLines' = ReportLines(Registry)
    /\ pc' = "poolwait"
    /\ UNCHANGED <<max_workers, prefetch, info, printed, stuckLines, max_msgs,
                   settings, cpu_count, diag, stale, recreated, rateLines,
                   prevTime, clock, nowTime, logCheckTime, nextHandle, valid,
                   task, futures, done, delete_batch, messages, scanTodo,
                   numStuck, ops, err, exitStatus>>

\* executor.shutdown() returns once every work item has run; exit(-1)
PoolShutdown ==
    /\ pc = "poolwait"
    /\ Running = {}
    /\ Queued = {}
    /\ exitStatus' = <<ExitStatus(-1)>>
    /\ pc' = "exited"
    /\ UNCHANGED <<max_workers, prefetch, info, printed, stuckLines, max_msgs,
                   settings, cpu_count, diag, stale, recreated, rateLines,
                   prevTime, clock, nowTime, logCheckTime, nextHandle, valid,
                   task, futures, done, delete_batch, messages, scanTodo,
                   numStuck, ops, stillLines, err>>

Next ==
    \/ Tick
    \/ Start
    \/ Complete
    \/ LoopTop
    \/ WaitReturn
    \/ DrainOne
    \/ Flush
    \/ Housekeep
    \/ ScanOne
    \/ ScanRenew
    \/ ScanEnd
    \/ Admit
    \/ Sleep
    \/ FetchBatch
    \/ FetchEmpty
    \/ FetchRaises
    \/ FetchFull
    \/ Report
    \/ PoolShutdown

Spec == Init /\ [][Next]_vars

\* ----------------------------------------------------------------- claims
\* the handles the receiver has returned so far
Delivered == 1..nextHandle

\* the handles whose completion the drain step has popped from the registry
Drained == Delivered \ Registry

\* number of occurrences of a call among the calls issued on a handle
Count(s, S) == Cardinality({i \in 1..Len(s) : s[i] \in S})

AckCalls == {"ack", "ack_err"}

DlCalls == {"dl", "dl_err"}

\* the settling calls on a handle that returned, in order
Settled(h) == SelectSeq(ops[h], LAMBDA x : x \in {"ack", "dl"})

\* C1: in every reachable state the registry holds at most
\* max_workers + prefetch entries.
C1_RegistryWithinBudget == Cardinality(Registry) <= max_workers + prefetch

\* C1 witness: with a budget of at least 2 the registry has been filled to
\* the budget and the coordinator has gone on to wait on it.
C1_Witness ==
    /\ max_workers + prefetch >= 2
    /\ Cardinality(Registry) = max_workers + prefetch
    /\ pc = "wait"

\* C2: complete_message is called on a handle only when its task has ended,
\* with a result, SzBadInputError or SzRetryTimeoutExceededError; a handle
\* whose task is queued or running has no ack call, in the handler too.
C2_AckOnlyAfterCompletion ==
    \A h \in Handles :
        Count(ops[h], AckCalls) > 0 => task[h] \in {"ok", "bad", "retry"}

\* C2 witness: the coordinator is in its handler, one handle is acked and
\* another is still running, registered and without any ack call.
C2_Witness ==
    /\ pc = "poolwait"
    /\ \E h1, h2 \in Handles :
        /\ Count(ops[h1], {"ack"}) = 1
        /\ task[h2] = "running"
        /\ h2 \in Registry
        /\ Count(ops[h2], AckCalls) = 0

\* C3: every handle gets at most one ack call and at most one dead-letter
\* call, and once the coordinator has stopped it is acked without
\* dead-letter, dead-lettered then acked, or neither acked nor dead-lettered:
\* a handle whose dead-letter call returned has an ack call after it.  (An ack
\* call that raised counts as an ack here, so that no broker failure on the
\* handle itself is what refutes the claim.)
C3_OneTerminalOutcome ==
    \A h \in Handles :
        /\ Count(ops[h], AckCalls) <= 1
        /\ Count(ops[h], DlCalls) <= 1
        /\ pc \in ShutdownPcs =>
              SelectSeq(ops[h], LAMBDA x : x \in {"dl"} \cup AckCalls)
                 \in {<<"ack">>, <<"ack_err">>, <<"dl", "ack">>,
                      <<"dl", "ack_err">>, <<>>}

\* C4: a drained task that ended with SzBadInputError or
\* SzRetryTimeoutExceededError has had dead_letter_message called on its
\* handle; an acked one was dead-lettered before the ack, and no handle has a
\* dead-letter call after an ack call.
C4_DeadLetterBeforeAck ==
    \A h \in Handles :
        /\ (h \in Drained /\ task[h] \in {"bad", "retry"}) =>
              Count(ops[h], DlCalls) = 1
        /\ (task[h] \in {"bad", "retry"} /\ Count(ops[h], AckCalls) > 0) =>
              \E i, j \in 1..Len(ops[h]) :
                  i < j /\ ops[h][i] = "dl" /\ ops[h][j] \in AckCalls
        /\ \A i, j \in 1..Len(ops[h]) :
              (ops[h][i] \in AckCalls /\ ops[h][j] \in DlCalls) => j < i

\* C4 witness: a task that ended with SzBadInputError and one that ended with
\* SzRetryTimeoutExceededError were each dead-lettered, then acked.
C4_Witness ==
    \E h1, h2 \in Handles :
        /\ task[h1] = "bad"
        /\ task[h2] = "retry"
        /\ Settled(h1) = <<"dl", "ack">>
        /\ Settled(h2) = <<"dl", "ack">>

\* C5: a handle whose dead-letter call returned gets its ack call by the end
\* of the same drain step (the loop over done and the flush), whatever the
\* other tasks of the step ended with.
C5_DeadLetteredThenAcked ==
    \A h \in Handles :
        (Count(ops[h], {"dl"}) > 0 /\ pc # "drain") =>
            Count(ops[h], AckCalls) > 0

\* C6: a task that returned and was popped by the drain step gets the ack
\* call on its handle by the time the coordinator fetches again or stops,
\* whatever the other tasks of the step ended with.
C6_OkAckedBeforeFetchOrStop ==
    \A h \in Handles :
        (h \in Drained /\ task[h] = "ok" /\ pc \in {"fetch"} \cup ShutdownPcs)
            => Count(ops[h], AckCalls) > 0

\* C7: a handle whose task raised an error other than SzBadInputError and
\* SzRetryTimeoutExceededError has no ack call and no dead-letter call.
C7_UnclassifiedNeverSettled ==
    \A h \in Handles :
        task[h] = "other" => Count(ops[h], AckCalls \cup DlCalls) = 0

\* C7 witness: such a task was drained, the process has ended, and another
\* handle was acked in the same run.
C7_Witness ==
    /\ pc = "exited"
    /\ \E h1, h2 \in Handles :
        /\ h1 \in Drained
        /\ task[h1] = "other"
        /\ Count(ops[h2], {"ack"}) = 1

\* C8: draining a task that raised an unclassified error does not take the
\* coordinator into its shutdown path.
C8_UnclassifiedIsPerMessage == ~(err = "task" /\ pc \in ShutdownPcs)

\* C9: a complete_message or renew_message_lock call that raises does not
\* take the coordinator into its shutdown path.
C9_AckRenewErrorsSwallowed ==
    ~(err \in {"complete", "renew"} /\ pc \in ShutdownPcs)

\* a step taken in the shutdown path stays in it and makes no broker call
StaysShutDown ==
    pc \in ShutdownPcs =>
        /\ pc' \in ShutdownPcs
        /\ ops' = ops
        /\ nextHandle' = nextHandle
        /\ futures' = futures

\* C10: once an error has reached the handler the coordinator stays in the
\* shutdown path, issues no further fetch, complete, dead-letter or renew
\* call, and the exit status, once there is one, is not 0.
C10_FatalStopsForGood ==
    /\ [](err # "none" => pc \in ShutdownPcs)
    /\ [](pc = "exited" => (exitStatus # <<>> /\ exitStatus[1] # 0))
    /\ [][StaysShutDown]_vars

\* C10 witness: the process has ended after an error, with a handle still in
\* the delete batch and an entry still in the registry.
C10_Witness ==
    /\ pc = "exited"
    /\ err # "none"
    /\ delete_batch # <<>>
    /\ Registry # {}


\* C11 (as amended): the handler prints exactly one "Still processing" line
\* for every registry entry whose task has not completed when the handler
\* runs, in registry order up to the first such entry whose body is not JSON
\* (its orjson.loads raises and ends the report), and no line for an entry
\* whose task has completed but was not drained, nor for a drained handle.
C11_ReportStep ==
    (pc = "shutdown" /\ pc' = "poolwait") =>
        \A h \in Handles :
            Count(stillLines', {h}) =
                IF /\ h \in Registry
                   /\ ~FutDone(h)
                   /\ \A b \in Registry :
                         (~FutDone(b) /\ b \notin valid) => h < b
                THEN 1 ELSE 0

C12_ShutdownDoesNotWait == pc = "poolwait" => ENABLED PoolShutdown

\* C16: the receiver is closed and replaced exactly on an empty batch received
\* while the registry is empty, and no broker call (ack, dead-letter, renew) is
\* issued on a handle whose receiver has been closed.
EmptyBatchStep ==
    /\ pc = "fetch"
    /\ pc' = "top"
    /\ Cardinality(Registry) < Budget

C16_Step ==
    /\ (stale' # stale \/ recreated' # recreated) =>
          (EmptyBatchStep /\ Registry = {})
    /\ EmptyBatchStep =>
          /\ stale' = IF Registry = {} THEN Delivered ELSE stale
          /\ recreated' = (recreated \/ Registry = {})
    /\ \A h \in Handles : ops'[h] # ops[h] => h \notin stale'

C16_RecycleOnlyWhenIdle == [][C16_Step]_vars

\* a receiver has been closed with handles of its own, and a broker call was
\* issued on a handle of the receiver that replaced it
C16_Witness ==
    /\ recreated
    /\ stale # {}
    /\ \E h \in Delivered \ stale : ops[h] # <<>>

\* C18: a call of process_msg that succeeds more than three times long_record
\* after its dispatch, as the only entry of the registry, has by then had its
\* lock renewed at least twice and its extension count raised to at least 2.
C18_Step ==
    \A h \in Handles :
        ( /\ Registry = {h}
          /\ task[h] = "running"
          /\ task'[h] = "ok"
          /\ clock - futures[h].start > 3 * LONG_RECORD )
        => ( /\ Count(ops[h], {"renew"}) >= 2
             /\ futures[h].ext >= 2 )

C18_LongCallRenewedTwice == [][C18_Step]_vars

\* C19: the number of rate lines printed is the number of whole intervals in
\* the message count.
C19_RateLines == rateLines = messages \div RateInterval

\* a rate line has been printed
C19_Witness ==
    /\ rateLines = 1
    /\ messages = RateInterval

\* C20: at most max_workers calls of process_msg run at a time, the work items
\* beyond that wait in the pool's queue, at most max_workers + prefetch are
\* outstanding, and with one worker and no prefetch at most one message is in
\* the registry.
C20_PoolBound ==
    /\ Cardinality(Running) <= max_workers
    /\ Running \cup Queued \subseteq Registry
    /\ Cardinality(Running \cup Queued) <= max_workers + prefetch
    /\ (max_workers = 1 /\ prefetch = 0) => Cardinality(Registry) <= 1

\* every pool thread is busy and a dispatched work item waits in the queue
C20_Witness ==
    /\ Cardinality(Running) = max_workers
    /\ Queued # {}

\* ------------------------------------------------- an external cancel signal
\* SIGINT raises KeyboardInterrupt in the coordinator, wherever it is in the
\* loop.  KeyboardInterrupt is not an Exception: neither `except Exception`
\* clause (lines 275, 293) catches it.
Cancel ==
    /\ pc \notin ShutdownPcs \cup {"interrupted"}
    /\ err' = "cancel"
    /\ pc' = "interrupted"
    /\ UNCHANGED <<max_workers, prefetch, info, printed, stuckLines, max_msgs,
                   settings, cpu_count, diag, stale, recreated, rateLines,
                   prevTime, clock, nowTime, logCheckTime, nextHandle, valid,
                   task, futures, done, delete_batch, messages, scanTodo,
                   numStuck, ops, stillLines, exitStatus>>

\* the interrupt leaves `with ThreadPoolExecutor(...)`, whose exit waits for
\* the work items, and ends the process (128 + SIGINT)
InterruptExit ==
    /\ pc = "interrupted"
    /\ Running = {}
    /\ Queued = {}
    /\ exitStatus' = <<ExitStatus(130)>>
    /\ pc' = "exited"
    /\ UNCHANGED <<max_workers, prefetch, info, printed, stuckLines, max_msgs,
                   settings, cpu_count, diag, stale, recreated, rateLines,
                   prevTime, clock, nowTime, logCheckTime, nextHandle, valid,
                   task, futures, done, delete_batch, messages, scanTodo,
                   numStuck, ops, stillLines, err>>

CancelNext ==
    \/ Next
    \/ Cancel
    \/ InterruptExit

SpecCancel == Init /\ [][CancelNext]_vars

\* C13: a cancel signal takes the handler's path: the coordinator goes to the
\* handler, which reports the outstanding entries, shuts the pool down and
\* exits non-zero.
C13_CancelTakesShutdownPath ==
    err = "cancel" =>
        /\ pc \in ShutdownPcs
        /\ pc = "exited" => (exitStatus # <<>> /\ exitStatus[1] # 0)

\* ------------------------------------------------------ runs without an end
\* Past MaxTime the clock is no longer counted: an idle coordinator goes on
\* receiving empty batches, and a saturated one goes on sleeping, without it.
FetchEmptyLate ==
    /\ pc = "fetch"
    /\ Cardinality(Registry) < Budget
    /\ clock + RECEIVE_WAIT > MaxTime
    /\ max_msgs' = MaxMsgs(Cardinality(Registry))
    /\ stale' = IF ShouldRecycle(Cardinality(Registry))
                THEN 1..nextHandle
                ELSE stale
    /\ recreated' = (recreated \/ ShouldRecycle(Cardinality(Registry)))
    /\ pc' = AfterEmptyBatch
    /\ UNCHANGED <<max_workers, prefetch, info, printed, stuckLines, settings,
                   cpu_count, diag, rateLines, prevTime, clock, nowTime,
                   logCheckTime, nextHandle, valid, task, futures, done,
                   delete_batch, messages, scanTodo, numStuck, ops,
                   stillLines, err, exitStatus>>

SleepLate ==
    /\ pc = "sleep"
    /\ clock + SLEEP_TIME > MaxTime
    /\ pc' = "top"
    /\ UNCHANGED <<max_workers, prefetch, info, printed, stuckLines, max_msgs,
                   settings, cpu_count, diag, stale, recreated, rateLines,
                   prevTime, clock, nowTime, logCheckTime, nextHandle, valid,
                   task, futures, done, delete_batch, messages, scanTodo,
                   numStuck, ops, stillLines, err, exitStatus>>

\* wait() times out with nothing done after the last instant of the clock
\* (lines 158-165)
WaitReturnLate ==
    /\ pc = "wait"
    /\ DoneFutures = {}
    /\ clock < nowTime + WAIT_TIMEOUT
    /\ clock >= MaxTime
    /\ done' = {}
    /\ delete_batch' = <<>>
    /\ pc' = "drain"
    /\ UNCHANGED <<max_workers, prefetch, info, printed, stuckLines, max_msgs,
                   settings, cpu_count, diag, stale, recreated, rateLines,
                   prevTime, clock, nowTime, logCheckTime, nextHandle, valid,
                   task, futures, messages, scanTodo, numStuck, ops,
                   stillLines, err, exitStatus>>

LiveNext ==
    \/ Next
    \/ FetchEmptyLate
    \/ SleepLate
    \/ WaitReturnLate

\* the coordinator's thread
Coordinator ==
    \/ LoopTop
    \/ WaitReturn
    \/ DrainOne
    \/ Flush
    \/ Housekeep
    \/ ScanOne
    \/ ScanRenew
    \/ ScanEnd
    \/ Admit
    \/ Sleep
    \/ SleepLate
    \/ WaitReturnLate
    \/ FetchBatch
    \/ FetchEmpty
    \/ FetchEmptyLate
    \/ FetchRaises
    \/ FetchFull
    \/ Report
    \/ PoolShutdown

\* The coordinator's thread and the pool's threads keep running, time passes
\* while the coordinator waits, every call of process_msg ends, and a receiver
\* that keeps asking is given the messages the queue holds.
LiveSpec ==
    /\ Init
    /\ [][LiveNext]_vars
    /\ WF_vars(Coordinator)
    /\ WF_vars(Tick)
    /\ WF_vars(Start)
    /\ WF_vars(Complete)
    /\ SF_vars(FetchBatch)

\* every message of the queue was delivered, drained and acked, the receiver
\* then returned an empty batch with the registry empty, and no error occurred
CleanDrain ==
    /\ pc = "top"
    /\ err = "none"
    /\ nextHandle = NumMsgs
    /\ Registry = {}
    /\ stale = Delivered
    /\ \A h \in Delivered : Count(ops[h], {"ack"}) = 1

\* C14: once the queue is drained and no error has occurred, the coordinator
\* eventually exits with status 0 (unless an error occurs after all).
C14_CleanDrainExitsZero ==
    CleanDrain ~> ((pc = "exited" /\ exitStatus = <<0>>) \/ err # "none")

\* the errors that are meant to stop the coordinator: a failed fetch, a failed
\* get_stats, a failed dead-letter call, an unreadable body in the stuck scan
CoordinatorFatal == {"receive", "stats", "dead_letter", "json"}

\* C15: the coordinator keeps fetching, in particular after it has recycled
\* the receiver: unless an error stops the coordinator, a message still on the
\* queue is eventually delivered and dispatched, and a delivered message whose
\* processing succeeds is eventually acked.
C15_LateMessageServed ==
    /\ \A h \in Handles :
          (recreated /\ h \notin Delivered)
              ~> (h \in Delivered \/ err \in CoordinatorFatal)
    /\ \A h \in Handles :
          (recreated /\ h \in Delivered \ stale /\ task[h] = "ok")
              ~> (Count(ops[h], AckCalls) = 1 \/ err \in CoordinatorFatal)

\* ---------------------------------------------------------- backpressure
\* the runs whose queue holds more messages than the budget
InitBackpressure == Init /\ NumMsgs > Budget

SpecBackpressure ==
    /\ InitBackpressure
    /\ [][LiveNext]_vars
    /\ WF_vars(Coordinator)
    /\ WF_vars(Tick)
    /\ WF_vars(Start)
    /\ WF_vars(Complete)
    /\ SF_vars(FetchBatch)

\* an engine call or a broker call has failed, or a body was not JSON
CallFailed ==
    \/ err # "none"
    \/ \E h \in Handles : task[h] \in {"bad", "retry", "other"}

\* every message of the queue has been fetched and acked exactly once
AllAckedOnce ==
    /\ nextHandle = NumMsgs
    /\ \A h \in Handles :
          Count(ops[h], AckCalls) = 1 /\ Count(ops[h], {"ack"}) = 1

\* C21: with more messages on the queue than the budget (the runs of
\* SpecBackpressure), and unless an engine call or a broker call fails, every
\* message is eventually fetched and acked; no handle is ever acked twice and
\* the registry never exceeds the budget.
C21_BackpressureDrains ==
    /\ [](Cardinality(Registry) <= Budget)
    /\ [](\A h \in Handles : Count(ops[h], AckCalls) <= 1)
    /\ <>(AllAckedOnce \/ CallFailed)

\* the queue held more than the budget and every message has been acked once
C21_Witness ==
    /\ NumMsgs > Budget
    /\ AllAckedOnce
    /\ messages = NumMsgs
    /\ ~CallFailed

\* --------------------------------------------------- the delete batch
\* every handle the delete batch holds has been acked
BatchAcked == \A i \in 1..Len(delete_batch) :
                 Count(ops[delete_batch[i]], {"ack"}) >= 1

\* where the coordinator is once the drain step is over
AfterDrainPcs == {"housekeep", "scan", "renew", "admit", "sleep", "fetch"}

RenewCalls == {"renew", "renew_err"}

\* C25 for one iteration of the scan: a stuck entry gets exactly one renew call
\* and one more extension, every other entry gets none
C25_Step ==
    (pc \in {"scan", "renew"} /\ scanTodo' # scanTodo) =>
        \A h \in Registry :
            LET calls(o) == Count(o[h], RenewCalls)
            IN  IF h = MinOf(scanTodo) /\ pc = "renew"
                THEN /\ calls(ops') = calls(ops) + 1
                     /\ h \in DOMAIN futures'
                     /\ futures'[h].ext = futures[h].ext + 1
                ELSE /\ calls(ops') = calls(ops)
                     /\ h \in DOMAIN futures'
                     /\ futures'[h].ext = futures[h].ext

\* C25 as stated: in a housekeeping scan every stuck entry gets exactly one
\* renew call and its extensions grows by exactly 1, every other entry gets no
\* renew call and keeps its extensions.
C25_RenewPerStuckEntry == [][C25_Step]_vars

\* --------------------------------------------------------- housekeeping
\* C26 as stated: housekeeping runs on every iteration where it is due, so
\* once an iteration is past the housekeeping position (log_check_time is
\* then now) it is no longer due.
C26_HousekeepingWheneverDue ==
    pc \in {"admit", "sleep", "fetch"} =>
        ~HousekeepingDue(nowTime, logCheckTime)

\* a step that runs housekeeping: the branch of line 207 is taken
HousekeepingRun == pc = "housekeep" /\ pc' \notin {"housekeep", "admit"}

C27_Step ==
    /\ logCheckTime' >= logCheckTime
    /\ logCheckTime' # logCheckTime => HousekeepingRun
    /\ HousekeepingRun =>
          /\ logCheckTime' = nowTime
          /\ 2 * logCheckTime' > 2 * logCheckTime + LONG_RECORD
    /\ ~(scanTodo' \subseteq scanTodo) => HousekeepingRun
    /\ \A h \in Registry \cap DOMAIN futures' :
          futures'[h].ext # futures[h].ext =>
              /\ futures'[h].ext = futures[h].ext + 1
              /\ pc = "renew"
              /\ logCheckTime = nowTime
              /\ h \in scanTodo \ scanTodo'

\* C27: log_check_time never decreases and changes only when housekeeping
\* runs; a housekeeping run comes more than long_record/2 after the previous
\* one (after the start, for the first); an entry's extensions grows only in
\* the scan of a housekeeping run, by 1, and the scan visits the entry once.
C27_HousekeepingSpacing == [][C27_Step]_vars

\* a housekeeping run, later than long_record/2 after the start, has
\* extended an entry
C27_Witness ==
    /\ pc = "scan"
    /\ logCheckTime > LONG_RECORD
    /\ \E h \in Registry \ scanTodo : futures[h].ext = 1

\* C28 as stated: a scan prints the "all threads are stuck" line once if the
\* stuck entries it found are at least max_workers, and not at all otherwise.
C28_AllStuckLineOnce ==
    (pc = "scan" /\ scanTodo = {}) =>
        stuckLines = (IF numStuck >= max_workers THEN 1 ELSE 0)

\* ---------------------------------------------------------------- fetch
\* a step of the fetch loop: a receive call, or the loop's exit
FetchStep == pc = "fetch" /\ (pc' # "fetch" \/ nextHandle' # nextHandle)

C29_Step ==
    /\ (pc = "admit" /\ Cardinality(Registry) >= Budget) =>
          pc' \in {"admit", "sleep"}
    /\ pc = "sleep" => pc' \in {"sleep", "top"}
    /\ (nextHandle' # nextHandle \/ max_msgs' # max_msgs) =>
          pc = "fetch" /\ Cardinality(Registry) < Budget
    /\ (FetchStep /\ Cardinality(Registry) >= Budget) => pc' = "top"
    /\ (FetchStep /\ Cardinality(Registry) < Budget) =>
          /\ max_msgs' = Budget - Cardinality(Registry)
          /\ max_msgs' \in 1..Budget
          /\ nextHandle' - nextHandle <= max_msgs'

\* C29: with the registry at the budget the coordinator sleeps and goes back
\* to the top of the loop without a receive call; a receive call is made only
\* in the fetch loop with the registry below the budget, and it asks for
\* budget - |registry| messages, between 1 and the budget.
C29_FetchAdmission == [][C29_Step]_vars

\* a receive call made with entries in the registry, asking for less than
\* the budget
C29_Witness ==
    /\ Registry # {}
    /\ max_msgs \in 1..(Budget - 1)
    /\ pc = "fetch"

\* ------------------------------------------------------------- messages
\* the ack calls issued on the handles 1..n
RECURSIVE TotalAcks(_, _)
TotalAcks(o, n) ==
    IF n = 0 THEN 0 ELSE Count(o[n], AckCalls) + TotalAcks(o, n - 1)

C30_Step ==
    /\ messages' >= messages
    /\ messages' # messages => pc = "drain" /\ done # {}
    /\ (pc = "drain" /\ done # {}) =>
          \A h \in done \ DOMAIN futures' :
              (task[h] \in {"ok", "bad", "retry"}
                   /\ err' \notin CoordinatorFatal)
                  => messages' = messages + 1
    /\ (pc = "drain" /\ done = {} /\ pc' # "drain") =>
          messages' = TotalAcks(ops', NumMsgs)

\* C30 as stated: messages never decreases, grows by one for every drained
\* completion that ended OK, BadInput or RetryTimeoutExceeded (unless a
\* coordinator-fatal error ends the drain), and when a drain step ends it
\* equals the number of ack calls issued so far.
C30_MessagesCountsDrained == [][C30_Step]_vars

\* ============================================================== startup
\* SENZING_THREADS_PER_PROCESS as int(os.getenv(..., 0)) reads it: unset, 1
ThreadsEnv == {0, 1}

\* SENZING_PREFETCH as int(os.getenv(..., -1)) reads it: unset, 1
PrefetchEnv == {-1, 1}

\* os.cpu_count(): None (0 here) or the number of CPUs
CpuCounts == {0, 1}

\* the coordinator is in the startup code (lines 87-143)
StartupPcs == {"start", "engine_init", "connection", "threads", "queue"}

\* a test for a missing setting that never fires
MissingNever(name) == FALSE

\* if not engine_config: / if not connection_str: / if not queue_name:
Missing(name) == name \notin settings.required

\* ThreadPoolExecutor(None): executor._max_workers = min(32, (cpu or 1) + 4)
PoolDefault(cpu) == Min(32, (IF cpu = 0 THEN 1 ELSE cpu) + 4)

\* prefetch = min(32, 0 if cpu_count is None else cpu_count + 4) (line 122)
PrefetchDefault(cpu) == Min(32, IF cpu = 0 THEN 0 ELSE cpu + 4)

\* the process before line 87: the environment is any of the bounded ones
InitStartup ==
    /\ settings \in [required : SUBSET AllSettings, threads : ThreadsEnv,
                     prefetch : PrefetchEnv]
    /\ max_workers = settings.threads
    /\ prefetch = settings.prefetch
    /\ cpu_count = -1
    /\ clock = 0
    /\ nowTime = 0
    /\ logCheckTime = 0
    /\ nextHandle = 0
    /\ valid = {}
    /\ task = [h \in Handles |-> "none"]
    /\ futures = << >>
    /\ done = {}
    /\ delete_batch = <<>>
    /\ messages = 0
    /\ scanTodo = {}
    /\ numStuck = 0
    /\ ops = [h \in Handles |-> <<>>]
    /\ stillLines = <<>>
    /\ stale = {}
    /\ recreated = FALSE
    /\ rateLines = 0
    /\ prevTime = 0
    /\ stuckLines = 0
    /\ max_msgs = 0
    /\ diag = "none"
    /\ info = FALSE
    /\ printed = {}
    /\ err = "none"
    /\ exitStatus = <<>>
    /\ pc = "start"

\* print(<the variable that must be set>, file=sys.stderr); exit(-1)
StartupExit(name) ==
    /\ diag' = name
    /\ exitStatus' = <<ExitStatus(-1)>>
    /\ pc' = "exited"
    /\ UNCHANGED err

\* one test of a required setting: exit if it is missing, else go on
CheckSetting(at, name, next) ==
    /\ pc = at
    /\ IF Missing(name)
       THEN StartupExit(name)
       ELSE pc' = next /\ UNCHANGED <<diag, exitStatus, err>>
    /\ UNCHANGED <<max_workers, prefetch, info, printed, stuckLines, max_msgs,
                   settings, cpu_count, stale, recreated, rateLines, prevTime,
                   clock, nowTime, logCheckTime, nextHandle, valid, task,
                   futures, done, delete_batch, messages, scanTodo, numStuck,
                   ops, stillLines>>

\* engine_config = os.getenv(...); if not engine_config: (lines 87-97)
CheckEngineConfig == CheckSetting("start", "engine_config", "engine_init")

\* factory = SzAbstractFactoryCore(...); g2 = factory.create_engine()
\* (lines 100-103); an engine that refuses raises to line 293
EngineInit ==
    /\ pc = "engine_init"
    /\ \/ /\ pc' = "connection"
          /\ UNCHANGED <<err, exitStatus>>
       \/ /\ err' = "engine_init"
          /\ exitStatus' = <<ExitStatus(-1)>>
          /\ pc' = "exited"
    /\ UNCHANGED <<max_workers, prefetch, info, printed, stuckLines, max_msgs,
                   settings, cpu_count, diag, stale, recreated, rateLines,
                   prevTime, clock, nowTime, logCheckTime, nextHandle, valid,
                   task, futures, done, delete_batch, messages, scanTodo,
                   numStuck, ops, stillLines>>

\* connection_str = args.url or os.getenv(...); if not connection_str:
\* (lines 107-115)
CheckConnection == CheckSetting("connection", "connection_str", "threads")

\* max_workers and prefetch (lines 117-125); max_workers is the value
\* ThreadPoolExecutor(max_workers) keeps in executor._max_workers (line 148)
ReadThreads ==
    /\ pc = "threads"
    /\ IF settings.threads = 0
       THEN \E cpu \in CpuCounts :
               /\ cpu_count' = cpu
               /\ max_workers' = PoolDefault(cpu)
               /\ prefetch' = PrefetchDefault(cpu)
       ELSE /\ max_workers' = settings.threads
            /\ prefetch' = IF settings.prefetch < 0
                           THEN settings.threads
                           ELSE settings.prefetch
            /\ UNCHANGED cpu_count
    /\ pc' = "queue"
    /\ UNCHANGED <<info, printed, stuckLines, max_msgs, settings, diag, stale,
                   recreated, rateLines, prevTime, clock, nowTime,
                   logCheckTime, nextHandle, valid, task, futures, done,
                   delete_batch, messages, scanTodo, numStuck, ops,
                   stillLines, err, exitStatus>>

\* queue_name = os.getenv(...); if not queue_name: (lines 131-137); with it
\* the receiver is opened and the loop is entered (lines 139-154)
CheckQueueName == CheckSetting("queue", "queue_name", "top")

Startup ==
    \/ CheckEngineConfig
    \/ EngineInit
    \/ CheckConnection
    \/ ReadThreads
    \/ CheckQueueName

StartupNext == Startup \/ Next

SpecStartup == InitStartup /\ [][StartupNext]_vars

\* C22: with a required setting missing the process never leaves the startup
\* code except to exit: no receiver is opened, no message is fetched or
\* dispatched, no settle call is issued; and when it has exited its status is
\* -1 (255 to the host) and the diagnostic names a missing setting, unless the
\* engine refused to start before the test of that setting was reached.
C22_MissingSettingExits ==
    settings.required # AllSettings =>
        /\ pc \in StartupPcs \cup {"exited"}
        /\ nextHandle = 0
        /\ Registry = {}
        /\ \A h \in Handles : ops[h] = <<>> /\ task[h] = "none"
        /\ pc = "exited" =>
              /\ exitStatus = <<255>>
              /\ \/ diag \in AllSettings \ settings.required
                 \/ diag = "none" /\ err = "engine_init"

\* the process has exited on the last test, the queue name
C22_Witness ==
    /\ pc = "exited"
    /\ diag = "queue_name"
    /\ settings.required = AllSettings \ {"queue_name"}
    /\ exitStatus = <<255>>

\* C23 as stated: once the startup has set it, prefetch is SENZING_PREFETCH
\* when that is set and not negative; otherwise min(32, cpu + 4) with
\* SENZING_THREADS_PER_PROCESS unset (0 with the CPU count unknown) and
\* max_workers with it set.
C23_PrefetchPrecedence ==
    pc \notin (StartupPcs \ {"queue"}) \cup {"exited"} =>
        prefetch = IF settings.prefetch >= 0 THEN settings.prefetch
                   ELSE IF settings.threads = 0 THEN PrefetchDefault(cpu_count)
                   ELSE max_workers

\* the calls that dead-letter a message
DeadLetterCalls == {"dl", "dl_err"}

\* One step seen from the registry: an entry that leaves does so alone, in the
\* drain loop, for a finished task taken from the done set; an entry that
\* enters belongs to a message fetched in this step, never to a drained one;
\* and every effect of handling a result (the count, the dead-letter call,
\* the append to the batch) comes with the removal of that task's entry.
C31_Step ==
    /\ Registry' \subseteq Registry \cup ((nextHandle + 1)..nextHandle')
    /\ \A h \in Registry \ Registry' :
          /\ pc = "drain"
          /\ h \in done
          /\ FutDone(h)
          /\ Registry \ Registry' = {h}
    /\ messages' # messages =>
          /\ messages' = messages + 1
          /\ Cardinality(Registry \ Registry') = 1
    /\ \A h \in Handles :
          Count(ops'[h], DeadLetterCalls) # Count(ops[h], DeadLetterCalls) =>
              h \in Registry \ Registry'
    /\ Len(delete_batch') > Len(delete_batch) =>
          /\ Len(delete_batch') = Len(delete_batch) + 1
          /\ delete_batch'[Len(delete_batch')] \in Registry \ Registry'

\* C31: the drain step removes a finished task's entry from the registry as it
\* takes its result, so over the whole run each task's result is handled at
\* most once: a removed entry never comes back, the count of handled messages
\* never exceeds the number of removed entries, and no handle is dead-lettered
\* twice.
C31_ResultHandledOnce ==
    /\ [][C31_Step]_vars
    /\ [](/\ messages <= Cardinality(Drained)
          /\ \A h \in Handles : Count(ops[h], DeadLetterCalls) <= 1
          /\ pc = "drain" => done \subseteq Registry)

\* two results have been handled, each once, one of them dead-lettered
C31_Witness ==
    /\ messages = 2
    /\ Cardinality(Drained) = 2
    /\ \E h \in Drained : Count(ops[h], DeadLetterCalls) = 1

\* the handles of the messages a fetch step returns
Fetched == (nextHandle + 1)..nextHandle'

\* One step seen from a message: a message a fetch returns had no task, gets
\* one queued on the pool and one entry with the time of the dispatch and no
\* extension; a task is queued by no other step; an entry leaves the registry
\* only in the drain loop, for a finished task of the done set.
C32_Step ==
    /\ nextHandle' >= nextHandle
    /\ \A h \in Fetched :
          /\ pc = "fetch"
          /\ task[h] = "none"
          /\ h \notin Registry
          /\ task'[h] = "queued"
          /\ h \in Registry'
          /\ futures'[h].ext = 0
          /\ futures'[h].start = clock
    /\ \A h \in Handles :
          task'[h] = "queued" /\ task[h] # "queued" => h \in Fetched
    /\ \A h \in Registry \ Registry' :
          pc = "drain" /\ h \in done /\ FutDone(h)

\* C32: every message a fetch returns is dispatched to the pool once and
\* registered with no extension and the dispatch time as its start; a
\* dispatched task has an entry until its completion is drained, and an entry
\* leaves the registry only then.
C32_DispatchRegisters ==
    /\ [][C32_Step]_vars
    /\ [](/\ \A h \in Delivered : task[h] # "none"
          /\ \A h \in Handles \ Delivered :
                task[h] = "none" /\ h \notin Registry
          /\ \A h \in Delivered :
                task[h] \in {"queued", "running"} => h \in Registry
          /\ \A h \in Drained : FutDone(h))

\* two fetches have each dispatched a message; the first task has finished and
\* is not drained, the second is queued, and both have their entry
C32_Witness ==
    \E h, g \in Registry :
        /\ FutDone(h)
        /\ task[g] = "queued"
        /\ futures[g].start > futures[h].start
        /\ futures[g].ext = 0

\* a step of a pool thread: a dispatched, unfinished task changes its state
WorkerStep ==
    \E h \in Handles : task[h] \in {"queued", "running"} /\ task'[h] # task[h]

\* C33 (step): a step of a worker starts or finishes one task and nothing else:
\* the registry, the counters, the ack batch, the done set, the fetch position
\* and the calls made on the broker are as before, and the coordinator stays
\* where it was.
C33_Step ==
    WorkerStep =>
        /\ \E h \in Handles :
              /\ \/ task[h] = "queued" /\ task'[h] = "running"
                 \/ task[h] = "running" /\ task'[h] \in Outcomes
              /\ \A g \in Handles \ {h} : task'[g] = task[g]
        /\ UNCHANGED <<futures, messages, numStuck, nextHandle, ops,
                       delete_batch, done, scanTodo, stale, recreated,
                       max_msgs, rateLines, stillLines, stuckLines, printed,
                       logCheckTime, prevTime, err, exitStatus, pc>>

\* C33: worker tasks never touch the registry or the counters and make no
\* fetch, ack, dead-letter or renew call; the coordinator alone does.
C33_WorkersLeaveRegistryAlone == [][C33_Step]_vars

\* a worker has finished a task while the coordinator is draining the
\* completions of an earlier wait: the entry is there and nothing was called on
\* its handle
C33_Witness ==
    /\ pc = "drain"
    /\ \E h \in Registry \ done :
          /\ FutDone(h)
          /\ ops[h] = <<>>
          /\ futures[h].ext = 0

\* the age of an entry as its latest scan measured it
ScanAge(h) == logCheckTime - futures[h].start

\* C36 (step): an entry that stays keeps its start time; its extension count
\* stays or grows by one, and it grows only in the renew step of the scan, for
\* the entry under test, after a renew call on its handle, with the registry's
\* keys and every other entry as before.
C36_Step ==
    \A h \in Registry \cap Registry' :
        /\ futures'[h].start = futures[h].start
        /\ futures'[h].ext \in {futures[h].ext, futures[h].ext + 1}
        /\ futures'[h].ext # futures[h].ext =>
              /\ pc = "renew"
              /\ h = MinOf(scanTodo)
              /\ ops'[h] = Append(ops[h], "renew")
              /\ Registry' = Registry
              /\ \A g \in Registry \ {h} : futures'[g] = futures[g]

Acked(h) == Count(ops[h], AckCalls) >= 1

\* a renew call is made on the handle in this step
RenewIssued(h) ==
    /\ Len(ops'[h]) = Len(ops[h]) + 1
    /\ ops'[h][Len(ops'[h])] \in RenewCalls

\* C35 as stated: nothing is called on a handle after its ack, and the scan
\* makes no renew call on a handle whose task has completed.
C35_Step ==
    \A h \in Handles :
        /\ Acked(h) => ops'[h] = ops[h]
        /\ RenewIssued(h) => ~FutDone(h)

C35_NoCallAfterCompletion == [][C35_Step]_vars

\* C35 (step): nothing is called on a handle after its ack; the scan goes on
\* to renew an entry only when it has just found its task not done, and the
\* renew call is made on a handle that is in the registry and not acked.
C35_StepTested ==
    /\ \A h \in Handles : Acked(h) => ops'[h] = ops[h]
    /\ pc # "renew" /\ pc' = "renew" =>
          /\ pc = "scan"
          /\ ~FutDone(MinOf(scanTodo))
          /\ scanTodo' = scanTodo
    /\ \A h \in Handles :
          RenewIssued(h) =>
              /\ pc = "renew"
              /\ h = MinOf(scanTodo)
              /\ h \in Registry
              /\ ~Acked(h)

\* C35: after a handle has been acked no renew, dead-letter or second ack is
\* made on it: an ack is the last call on its handle. The scan renews only a
\* handle whose task it found not done, which is still in the registry.
C35_AckIsLast ==
    /\ [][C35_StepTested]_vars
    /\ [](\A h \in Handles :
             \A i \in 1..(Len(ops[h]) - 1) : ops[h][i] \notin AckCalls)

\* a handle was renewed by a scan, its task finished later, and it was acked:
\* the loop has gone on and nothing more was called on it
C35_Witness ==
    /\ pc = "fetch"
    /\ \E h \in Drained : ops[h] = <<"renew", "ack">>

\* the task of the entry the scan is about to renew has finished since the test
C35_RaceWitness ==
    /\ pc = "renew"
    /\ FutDone(MinOf(scanTodo))

\* the worker and prefetch settings of the runs started with -i
InfoConfigs == {<<1, 0>>, <<1, 1>>}

\* the state at the top of the loop of a run started with -i (line 71): every
\* task is submitted with args.info true (line 266)
InitInfo ==
    /\ \E c \in InfoConfigs : max_workers = c[1] /\ prefetch = c[2]
    /\ clock = 0
    /\ nowTime = 0
    /\ logCheckTime = 0
    /\ nextHandle = 0
    /\ valid = {}
    /\ task = [h \in Handles |-> "none"]
    /\ futures = <<>>
    /\ done = {}
    /\ delete_batch = <<>>
    /\ messages = 0
    /\ scanTodo = {}
    /\ numStuck = 0
    /\ ops = [h \in Handles |-> <<>>]
    /\ stillLines = <<>>
    /\ stale = {}
    /\ recreated = FALSE
    /\ rateLines = 0
    /\ prevTime = 0
    /\ stuckLines = 0
    /\ max_msgs = 0
    /\ settings = [required |-> AllSettings, threads |-> max_workers,
                   prefetch |-> prefetch]
    /\ cpu_count = -1
    /\ diag = "none"
    /\ info = TRUE
    /\ printed = {}
    /\ err = "none"
    /\ exitStatus = <<>>
    /\ pc = "top"

SpecInfo == InitInfo /\ [][Next]_vars

\* an ack call is made on the handle in this step
AckIssued(h) ==
    Count(ops'[h], AckCalls) > Count(ops[h], AckCalls)

\* C34 (step): the info string of a message is printed in a step that starts
\* with its handle not acked, and a step that acks the handle of a message
\* with an info string ends with the string printed.
C34_Step ==
    \A h \in Handles :
        /\ h \in printed' \ printed => ~Acked(h) /\ task[h] = "info"
        /\ AckIssued(h) /\ task[h] = "info" => h \in printed'

\* C34: with -i, when the engine returns a non-empty info string for a
\* message, the string is printed to stdout before the ack of the message's
\* handle is issued: an acked handle whose task returned an info string has
\* had it printed, and only info strings of drained tasks are printed.
C34_InfoBeforeAck ==
    /\ [][C34_Step]_vars
    /\ [](/\ \A h \in Handles : task[h] = "info" /\ Acked(h) => h \in printed
          /\ \A h \in printed : task[h] = "info" /\ h \in Drained)

\* one info string is printed and its handle acked, another is printed and
\* its handle waits in the batch for its ack
C34_Witness ==
    /\ info
    /\ \E h \in printed : ops[h] = <<"ack">>
    /\ delete_batch # <<>>
    /\ \E g \in printed : ops[g] = <<>> /\ g = delete_batch[Len(delete_batch)]

====
